---- MODULE Spec2Model ----
(***************************************************************************)
(* Model of src/scraper.py: the notice scraper of Siliguri College.        *)
(*                                                                         *)
(* One run of main() is a sequence of steps (pc); the directory of         *)
(* notices_<n>.json files persists between runs.  A behaviour is two       *)
(* consecutive runs, from an empty directory, from the directory after one *)
(* run, or from one that runs have filled up to notices_9.json.  The       *)
(* network and the                                                         *)
(* file system are the environment: every fetch, read and write draws its  *)
(* outcome nondeterministically.                                           *)
(*                                                                         *)
(* Strings are sequences of tokens.  A link is a sequence whose first      *)
(* token is "http" when it is absolute; a file name is represented by the  *)
(* character codes of the part between "notices_" and "json" (the digits   *)
(* and the dot), which is the only part in which two names differ.         *)
(* A notice carries its url and its google_drive value; title and date are *)
(* copied verbatim by the code and never read, and are left out.  Notices  *)
(* are values: that new_notices shares its dicts with all_notices has no   *)
(* effect the code can observe, since all_notices is not read after the    *)
(* filter of line 146.                                                     *)
(***************************************************************************)
EXTENDS Integers, Sequences, FiniteSets, TLC

\* ------------------------------------------------------------------ bounds
\* Panels (with a title link) in one listing page.
MaxListing == 2
\* Files of the longest start directory (notices_1.json .. notices_9.json).
Prefilled == 9
\* Files of a start directory with names of any kind.
MaxNames == 2

\* ------------------------------------------------------------- vocabulary
Null == "null"
\* the key google_drive is not set yet (a notice fresh from the listing)
Unset == "unset"
DriveLink == "drive.google.com/1"

BASE_URL == <<"http", "siliguricollege.org.in/">>

\* href values of the title links of a listing page: missing or empty
\* (which normalises to the url BASE_URL), a relative link, and the
\* absolute form of the same link.
RawLinks == { <<>>, <<"a.php">>, <<"http", "siliguricollege.org.in/", "a.php">> }

\* What the listing request can produce: a RequestException, or the hrefs
\* of the panels that have a title link, in page order.
FetchError == [ok |-> FALSE, hrefs |-> <<>>]
RECURSIVE SeqsUpTo(_, _)
SeqsUpTo(S, n) ==
    IF n = 0 THEN { <<>> }
    ELSE LET shorter == SeqsUpTo(S, n - 1)
         IN  shorter \cup { Append(s, x) : s \in { t \in shorter : Len(t) = n - 1 }, x \in S }
Pages == SeqsUpTo(RawLinks, MaxListing)
ListingResponses == { [ok |-> TRUE, hrefs |-> p] : p \in Pages } \cup { FetchError }

\* What the request for a notice page can produce: a RequestException, a
\* page without a drive link, a page with one.
SecondaryResponses == { "fail", "none", DriveLink }

\* How the write of save_to_json can end: done, failed before the file was
\* created (open raised), failed after open truncated/created the file.
WriteOutcomes == { "ok", "open_failed", "dump_failed" }

\* --------------------------------------------------------- pure functions
StartsWithHttp(link) == Len(link) > 0 /\ link[1] = "http"

\* scraper.py:36  link if link.startswith("http") else BASE_URL + link
NormaliseUrl(link) == IF StartsWithHttp(link) THEN link ELSE BASE_URL \o link

\* scraper.py:17-46
get_notice_links(resp) ==
    IF ~resp.ok THEN <<>>
    ELSE [k \in 1..Len(resp.hrefs) |->
             [url |-> NormaliseUrl(resp.hrefs[k]), google_drive |-> Unset]]

\* mutant: the link found on the page is dropped
get_google_drive_link_none(resp) == Null

\* scraper.py:55-64
get_google_drive_link(resp) ==
    IF resp = "fail" THEN Null
    ELSE IF resp = "none" THEN Null
    ELSE resp

\* ---- file names -------------------------------------------------------
\* str(n): the decimal digits of n, as character codes ('0' = 48).
RECURSIVE Digits(_)
Digits(n) == IF n < 10 THEN << 48 + n >> ELSE Append(Digits(n \div 10), 48 + (n % 10))

Dot == 46
Minus == 45
Underscore == 95
\* a letter: any character int() does not accept
LetterX == 120
\* the common suffix of the names, the characters of "json"
Json == << 106, 115, 111, 110 >>

\* f"notices_{n}.json", without the common prefix and the common suffix
FileName(n) ==
    IF n < 0 THEN << Minus >> \o Append(Digits(0 - n), Dot)
    ELSE Append(Digits(n), Dot)

\* f.split("_")[1].split(".")[0]: the characters up to the first
\* underscore or dot after "notices_"
RECURSIVE NamePart(_)
NamePart(name) ==
    IF name = <<>> \/ Head(name) \in { Dot, Underscore } THEN <<>>
    ELSE << Head(name) >> \o NamePart(Tail(name))

IsDigits(s) == s # <<>> /\ \A k \in 1..Len(s) : s[k] \in 48..57

\* int() returns for a sign and digits, and raises ValueError otherwise
IntParses(name) ==
    LET part == NamePart(name)
    IN  /\ part # <<>>
        /\ IF Head(part) = Minus THEN IsDigits(Tail(part)) ELSE IsDigits(part)

RECURSIVE ParseDigits(_, _)
ParseDigits(s, acc) ==
    IF s = <<>> \/ Head(s) = Dot THEN acc
    ELSE ParseDigits(Tail(s), 10 * acc + (Head(s) - 48))

\* int(f.split("_")[1].split(".")[0]) of a name for which it returns
ParseInt(name) ==
    LET part == NamePart(name)
    IN  IF Head(part) = Minus THEN 0 - ParseDigits(Tail(part), 0)
        ELSE ParseDigits(part, 0)

\* Python's str comparison: by the first differing character
RECURSIVE StrLess(_, _)
StrLess(s, t) ==
    IF s = <<>> THEN t # <<>>
    ELSE IF t = <<>> THEN FALSE
    ELSE IF Head(s) # Head(t) THEN Head(s) < Head(t)
    ELSE StrLess(Tail(s), Tail(t))

\* scraper.py:80 and 164-167  sorted(json_files)[-1]
SortedLast(names) ==
    CHOOSE f \in names : \A g \in names : g = f \/ StrLess(g \o Json, f \o Json)

SetMax(S) == CHOOSE m \in S : \A x \in S : x <= m

\* mutant: the next number is the number of files plus one
get_next_filename_by_count(names) == FileName(Cardinality(names) + 1)

\* scraper.py:91-109
get_next_filename(names) ==
    IF names = {} THEN FileName(1)
    ELSE LET numbers == { ParseInt(f) : f \in { g \in names : IntParses(g) } }
         IN  FileName((IF numbers = {} THEN 0 ELSE SetMax(numbers)) + 1)

\* ---- file contents ----------------------------------------------------
\* A file that json.load cannot parse (a truncated or empty file).
CorruptFile == [ok |-> FALSE, scraped_at |-> 0, total_notices |-> 0, notices |-> <<>>]

UrlsOf(notices) == { notices[k].url : k \in 1..Len(notices) }

\* scraper.py:73-88; readOk: the open/read of the file raised nothing
load_existing_notices(dir, readOk) ==
    IF DOMAIN dir = {} THEN {}
    ELSE LET latest_file == SortedLast(DOMAIN dir)
         IN  IF readOk /\ dir[latest_file].ok
             THEN UrlsOf(dir[latest_file].notices)
             ELSE {}

\* mutant: the early return of line 141-143 is missing
NothingFoundNever(all) == FALSE

\* scraper.py:141  if not all_notices
NothingFound(all) == all = <<>>

\* mutant: the early return of line 148-150 is missing
UpToDateNever(new) == FALSE

\* scraper.py:148  if not new_notices
UpToDate(new) == new = <<>>

\* mutant: the listing is not filtered against the baseline
FilterNewKeepsAll(all, existing) == all

\* mutant: the kept records come out last first
FilterNewReversed(all, existing) ==
    LET kept == SelectSeq(all, LAMBDA n : n.url \notin existing)
    IN  [ k \in 1..Len(kept) |-> kept[Len(kept) + 1 - k] ]

\* scraper.py:146
FilterNew(all, existing) == SelectSeq(all, LAMBDA n : n.url \notin existing)

\* mutant: the store is read again whenever the directory holds a file
NeedsRereadAlways(existing) == TRUE

\* scraper.py:163  if existing_links
NeedsReread(existing) == existing # {}

\* mutant: the new notices are put first
CombineNewFirst(old, new) == new \o old

\* scraper.py:170  old_data.get("notices", []) + new_notices
Combine(old, new) == old \o new

\* mutant: the count is the number of different urls
RecordCountsUrls(notices, t) ==
    [ok |-> TRUE, scraped_at |-> t, total_notices |-> Cardinality(UrlsOf(notices)),
     notices |-> notices]

\* scraper.py:117-121
Record(notices, t) ==
    [ok |-> TRUE, scraped_at |-> t, total_notices |-> Len(notices), notices |-> notices]

\* dir with file name set to content
WithFile(dir, name, content) ==
    [f \in (DOMAIN dir) \cup {name} |-> IF f = name THEN content ELSE dir[f]]

\* scraper.py:112-129
save_to_json(dir, notices, filename, t, outcome) ==
    IF outcome = "ok" THEN WithFile(dir, filename, Record(notices, t))
    ELSE IF outcome = "dump_failed" THEN WithFile(dir, filename, CorruptFile)
    ELSE dir

\* ------------------------------------------------------------------ state
VARIABLES
    files,          \* the directory: file name -> content
    now,            \* datetime.now()
    run,            \* which run of main() this is: "none", "first", "second"
    pc,             \* position in main()
    existing_links, \* main: existing_links
    all_notices,    \* main: all_notices
    new_notices,    \* main: new_notices
    idx,            \* main: the loop of lines 155-159, next notice to enrich
    combined,       \* main: combined
    new_filename,   \* main: new_filename
    requests,       \* urls the run asked get_google_drive_link for, in order
    responses,      \* what each of those requests produced
    io,             \* the run's file operations and how they ended
    output,         \* final message printed by the run
    before,         \* the directory when the run started
    prev            \* the run before this one: its listing, its new notices, its write

vars == << files, now, run, pc, existing_links, all_notices, new_notices, idx,
           combined, new_filename, requests, responses, io, output, before, prev >>

\* io.load: "none" (no file to read), "ok", "corrupt" (json.load raised),
\*          "error" (open or read raised)
\* io.listing: "failed" (RequestException), "empty" (no panel), "found"
NoIo == [load |-> "none", listing |-> "none", reread |-> "none", write |-> "none"]

\* The run went through without any failure of the file system.
NoStoreFailure(i) ==
    /\ i.load \in { "none", "ok" }
    /\ i.reread \in { "none", "ok" }
    /\ i.write \in { "none", "ok" }

NoPrev == [clean |-> FALSE, all_notices |-> <<>>, new_notices |-> <<>>, write |-> "none"]

EmptyDir == << >>

\* notices_1.json .. notices_n.json, each holding the single notice a.php
\* without drive link: the directory after n runs over the listing [a.php]
\* of which each but the first could not read its baseline (lines 86-88).
PrefilledDir(n) ==
    [f \in { FileName(k) : k \in 1..n } |->
        Record(<< [url |-> NormaliseUrl(<<"a.php">>), google_drive |-> Null] >>, ParseInt(f))]

Init ==
    /\ \/ files = EmptyDir /\ now = 0
       \/ files = PrefilledDir(1) /\ now = 1
       \/ files = PrefilledDir(Prefilled) /\ now = Prefilled
    /\ run = "none"
    /\ pc = "idle"
    /\ existing_links = {}
    /\ all_notices = <<>>
    /\ new_notices = <<>>
    /\ idx = 1
    /\ combined = <<>>
    /\ new_filename = <<>>
    /\ requests = <<>>
    /\ responses = <<>>
    /\ io = NoIo
    /\ output = "none"
    /\ before = files
    /\ prev = NoPrev

Terminated == pc \in { "idle", "aborted", "uptodate", "done", "crashed" }

\* ---------------------------------------------------------------- actions
\* scraper.py:132-138: a new process; existing_links = load_existing_notices()
MainLoad(readOk) ==
    /\ Terminated
    /\ run # "second"
    /\ run' = IF run = "none" THEN "first" ELSE "second"
    /\ now' = now + 1
    /\ before' = files
    /\ existing_links' = load_existing_notices(files, readOk)
    /\ io' = [NoIo EXCEPT !.load =
                 IF DOMAIN files = {} THEN "none"
                 ELSE IF ~readOk THEN "error"
                 ELSE IF files[SortedLast(DOMAIN files)].ok THEN "ok"
                 ELSE "corrupt"]
    /\ prev' = IF pc \in { "done", "uptodate" } /\ NoStoreFailure(io)
               THEN [clean |-> TRUE, all_notices |-> all_notices,
                     new_notices |-> new_notices, write |-> io.write]
               ELSE [NoPrev EXCEPT !.write = io.write]
    /\ all_notices' = <<>>
    /\ new_notices' = <<>>
    /\ idx' = 1
    /\ combined' = <<>>
    /\ new_filename' = <<>>
    /\ requests' = <<>>
    /\ responses' = <<>>
    /\ output' = "none"
    /\ pc' = "listing"
    /\ UNCHANGED files

\* scraper.py:139-143
MainListing(resp) ==
    /\ pc = "listing"
    /\ all_notices' = get_notice_links(resp)
    /\ io' = [io EXCEPT !.listing = IF ~resp.ok THEN "failed"
                                    ELSE IF resp.hrefs = <<>> THEN "empty"
                                    ELSE "found"]
    /\ IF NothingFound(all_notices')
       THEN pc' = "aborted" /\ output' = "No notices found or error occurred."
       ELSE pc' = "diff" /\ UNCHANGED output
    /\ UNCHANGED << files, now, run, existing_links, new_notices, idx, combined,
                    new_filename, requests, responses, before, prev >>

\* scraper.py:145-154
MainDiff ==
    /\ pc = "diff"
    /\ new_notices' = FilterNew(all_notices, existing_links)
    /\ IF UpToDate(new_notices')
       THEN pc' = "uptodate" /\ output' = "No new notices found. Everything is up to date."
       ELSE pc' = "enrich" /\ UNCHANGED output
    /\ idx' = 1
    /\ UNCHANGED << files, now, run, existing_links, all_notices, combined,
                    new_filename, requests, responses, io, before, prev >>

\* scraper.py:155-159, one iteration of the loop
MainEnrich(resp) ==
    /\ pc = "enrich"
    /\ idx <= Len(new_notices)
    /\ requests' = Append(requests, new_notices[idx].url)
    /\ responses' = Append(responses, resp)
    /\ new_notices' = [new_notices EXCEPT ![idx].google_drive = get_google_drive_link(resp)]
    /\ idx' = idx + 1
    /\ UNCHANGED << files, now, run, pc, existing_links, all_notices, combined,
                    new_filename, io, output, before, prev >>

\* scraper.py:161-172; readOk: the second read of the latest file raised nothing
MainCombine(readOk) ==
    /\ pc = "enrich"
    /\ idx > Len(new_notices)
    /\ IF NeedsReread(existing_links)
       THEN LET latest_file == SortedLast(DOMAIN files)
            IN  IF DOMAIN files # {} /\ readOk /\ files[latest_file].ok
                THEN /\ combined' = Combine(files[latest_file].notices, new_notices)
                     /\ io' = [io EXCEPT !.reread = "ok"]
                     /\ pc' = "save"
                     /\ UNCHANGED output
                ELSE /\ io' = [io EXCEPT !.reread = "failed"]
                     /\ pc' = "crashed"
                     /\ output' = "Traceback"
                     /\ UNCHANGED combined
       ELSE /\ combined' = new_notices
            /\ pc' = "save"
            /\ UNCHANGED << io, output >>
    /\ UNCHANGED << files, now, run, existing_links, all_notices, new_notices, idx,
                    new_filename, requests, responses, before, prev >>

\* scraper.py:174-176
MainSave(outcome) ==
    /\ pc = "save"
    /\ new_filename' = get_next_filename(DOMAIN files)
    /\ files' = save_to_json(files, combined, new_filename', now, outcome)
    /\ io' = [io EXCEPT !.write = outcome]
    /\ pc' = "report"
    /\ UNCHANGED << now, run, existing_links, all_notices, new_notices, idx, combined,
                    requests, responses, output, before, prev >>

\* scraper.py:178-180
MainReport ==
    /\ pc = "report"
    /\ output' = "Added new notice(s). Saved."
    /\ pc' = "done"
    /\ UNCHANGED << files, now, run, existing_links, all_notices, new_notices, idx,
                    combined, new_filename, requests, responses, io, before, prev >>

Next ==
    \/ \E readOk \in BOOLEAN : MainLoad(readOk)
    \/ \E resp \in ListingResponses : MainListing(resp)
    \/ MainDiff
    \/ \E resp \in SecondaryResponses : MainEnrich(resp)
    \/ \E readOk \in BOOLEAN : MainCombine(readOk)
    \/ \E outcome \in WriteOutcomes : MainSave(outcome)
    \/ MainReport

Spec == Init /\ [][Next]_vars

\* ---- one run from a directory with names of any kind ---------------------
\* Names matching notices_*.json that earlier runs or the user can have left:
\* numbered ones, and ones whose number part int() reads differently from
\* its text or not at all.
NamePool ==
    { FileName(1), FileName(2), FileName(10), FileName(0 - 2),
      << 48 >> \o FileName(2),
      << Dot >>,
      << LetterX, Dot >>,
      << 49, LetterX, Dot >>,
      << 49, Dot, LetterX, Dot >>,
      << 49, Underscore, LetterX, Dot >> }

NameDirs ==
    { [f \in S |-> Record(<< [url |-> NormaliseUrl(<<"a.php">>), google_drive |-> Null] >>, 0)] :
        S \in { T \in SUBSET NamePool : Cardinality(T) <= MaxNames } }

\* One run is made from each directory (run = "first": the window of two
\* runs is at its second).
InitNames ==
    /\ files \in NameDirs
    /\ now = 0
    /\ run = "first"
    /\ pc = "idle"
    /\ existing_links = {}
    /\ all_notices = <<>>
    /\ new_notices = <<>>
    /\ idx = 1
    /\ combined = <<>>
    /\ new_filename = <<>>
    /\ requests = <<>>
    /\ responses = <<>>
    /\ io = NoIo
    /\ output = "none"
    /\ before = files
    /\ prev = NoPrev

SpecNames == InitNames /\ [][Next]_vars

\* ------------------------------------------------------- the persisted store
\* The persisted record of a directory is the file of the most recent
\* successful write: the well-formed file with the highest number.
GoodFiles(dir) == { f \in DOMAIN dir : dir[f].ok }
LastGood(dir) == CHOOSE f \in GoodFiles(dir) : \A g \in GoodFiles(dir) : ParseInt(g) <= ParseInt(f)
StoredNotices(dir) == IF GoodFiles(dir) = {} THEN <<>> ELSE dir[LastGood(dir)].notices
StoredCount(dir) == IF GoodFiles(dir) = {} THEN 0 ELSE dir[LastGood(dir)].total_notices
StoredStamp(dir) == IF GoodFiles(dir) = {} THEN 0 ELSE dir[LastGood(dir)].scraped_at

NoDuplicates(seq) == \A j, k \in 1..Len(seq) : seq[j] = seq[k] => j = k
UrlSeq(notices) == [k \in 1..Len(notices) |-> notices[k].url]
Entries(notices) == { notices[k] : k \in 1..Len(notices) }

RunEnded == pc \in { "aborted", "uptodate", "done", "crashed" }

\* ------------------------------------------------------------------ claims

\* C1: no persisted notices sequence holds two entries with the same url,
\* also when the listing itself repeats a url.  (Fails: main filters the
\* listing against the baseline only, never against itself.)
C1_NoDuplicateUrls ==
    \A f \in GoodFiles(files) : NoDuplicates(UrlSeq(files[f].notices))

\* C2: append-only.  After a run whose listing fetch found notices, the
\* urls of the persisted record are a superset of those persisted before
\* the run.  (Fails: a baseline that cannot be read counts as empty and the
\* record written then holds the listing alone.)
C2_AppendOnly ==
    (RunEnded /\ io.listing = "found")
        => UrlsOf(StoredNotices(before)) \subseteq UrlsOf(StoredNotices(files))

\* C3: idempotence.  When a run follows a run with the same listing, and
\* whatever it fetches again returns what it returned before, the persisted
\* notices and their count are after it what they were before it.  Both
\* runs are runs in which no read or write of the store failed.
C3_Idempotent ==
    ( /\ run = "second"
      /\ pc \in { "uptodate", "done" }
      /\ prev.clean
      /\ NoStoreFailure(io)
      /\ all_notices = prev.all_notices
      /\ (new_notices = <<>> \/ new_notices = prev.new_notices) )
        => /\ StoredNotices(files) = StoredNotices(before)
           /\ StoredCount(files) = StoredCount(before)

\* C3 witness: the second of two runs over the same listing, after a first
\* run that wrote its new notices, has ended.
C3_Witness ==
    /\ run = "second"
    /\ pc = "uptodate"
    /\ prev.clean
    /\ prev.write = "ok"
    /\ NoStoreFailure(io)
    /\ all_notices = prev.all_notices

\* The same with eleven files: the second run writes again what the first wrote.
C3_TwoDigitCase ==
    /\ run = "second"
    /\ pc = "done"
    /\ prev.clean
    /\ prev.write = "ok"
    /\ NoStoreFailure(io)
    /\ all_notices = prev.all_notices
    /\ new_notices = prev.new_notices

\* The notices of the baseline file the run loaded (none when the baseline is empty).
LoadedNotices ==
    IF existing_links = {} THEN <<>> ELSE before[SortedLast(DOMAIN before)].notices

C6_AbortLeavesStore ==
    io.listing \in { "failed", "empty" } =>
        /\ pc = "aborted"
        /\ output = "No notices found or error occurred."
        /\ requests = <<>>
        /\ io.write = "none"
        /\ files = before

\* C6 witness: the listing fetch failed with store files present.
C6_Witness ==
    /\ pc = "aborted"
    /\ io.listing = "failed"
    /\ DOMAIN files # {}

Range(seq) == { seq[k] : k \in 1..Len(seq) }

\* C7: enrichment isolation.  No run requests the page of a notice that is
\* already persisted, and every persisted entry is in the persisted record
\* after the run with the google_drive value it had.  (Fails: a baseline
\* that cannot be read, or that is not the newest file, makes persisted
\* notices new again.)
C7_EnrichmentIsolation ==
    /\ \A u \in UrlsOf(StoredNotices(before)) : u \notin Range(requests)
    /\ RunEnded => Entries(StoredNotices(before)) \subseteq Entries(StoredNotices(files))

\* C8: a failing notice page does not end the run.  Each new notice gets
\* null when its request failed and what the page gave otherwise; all new
\* notices are in the merged sequence, and in the file when the write
\* succeeds; a run that requested pages never ends in one of the early
\* returns, and it stops only when the second read of the store fails.
C8_FailureContained ==
    /\ Len(responses) = Len(requests)
    /\ Len(responses) <= Len(new_notices)
    /\ \A k \in 1..Len(responses) :
          /\ new_notices[k].url = requests[k]
          /\ responses[k] = "fail" => new_notices[k].google_drive = Null
          /\ responses[k] = "none" => new_notices[k].google_drive = Null
          /\ responses[k] = DriveLink => new_notices[k].google_drive = DriveLink
    /\ pc \in { "save", "report", "done" } =>
          /\ Len(responses) = Len(new_notices)
          /\ Len(combined) >= Len(new_notices)
          /\ \A k \in 1..Len(new_notices) :
                combined[Len(combined) - Len(new_notices) + k] = new_notices[k]
    /\ (pc = "done" /\ io.write = "ok") => files[new_filename].notices = combined
    /\ pc \in { "aborted", "uptodate" } => responses = <<>>
    /\ pc = "crashed" => io.reread = "failed"

\* C8 witness: of two new notices one request failed and one gave a link,
\* and the run wrote both.
C8_Witness ==
    /\ pc = "done"
    /\ io.write = "ok"
    /\ Len(new_notices) = 2
    /\ "fail" \in Range(responses)
    /\ DriveLink \in Range(responses)

\* C9: in a run every url is requested at most once, only urls absent from
\* the baseline are requested, and the requests are as many as the new
\* notices.  (Fails: a url the listing repeats is requested once for each
\* occurrence.)
C9_OncePerUrl ==
    /\ NoDuplicates(requests)
    /\ \A k \in 1..Len(requests) : requests[k] \notin existing_links
    /\ pc \in { "save", "report", "done" } => Len(requests) = Len(new_notices)

\* The parts of C9 that hold: only new urls, one request for each new notice.
C9_OnlyNewOnesRequested ==
    /\ \A k \in 1..Len(requests) : requests[k] \notin existing_links
    /\ pc \in { "save", "report", "done" } => Len(requests) = Len(new_notices)

\* C10: a failed write does not corrupt the store: every earlier file is
\* as it was, and the run after it loads the last good version as its
\* baseline.  (Fails: a write that fails after open() leaves a truncated
\* file, which is the file the next run loads, as an empty baseline.)
C10_FailedWriteKeepsStore ==
    /\ (pc \in { "report", "done" } /\ io.write # "ok") =>
          \A f \in DOMAIN before : f \in DOMAIN files /\ files[f] = before[f]
    /\ (run = "second" /\ prev.write \in { "open_failed", "dump_failed" } /\ io.load # "error")
          => existing_links = UrlsOf(StoredNotices(before))

\* No file of the directory is malformed (fails with C10, by the same write).
C10_NoMalformedFile == \A f \in DOMAIN files : files[f].ok

\* C11: a malformed store is recoverable.  When json.load fails on the
\* latest file the baseline is empty and the run goes on: it never stops
\* with a traceback, it ends early only when the listing gives nothing,
\* and with a listing it ends in the final report after the write.
C11_MalformedStoreRecovered ==
    io.load = "corrupt" =>
        /\ existing_links = {}
        /\ pc \in { "listing", "diff", "enrich", "save", "report", "done", "aborted" }
        /\ pc = "aborted" => io.listing \in { "failed", "empty" }
        /\ RunEnded /\ io.listing = "found" =>
              /\ pc = "done"
              /\ io.write # "none"
              /\ output = "Added new notice(s). Saved."
              /\ combined = new_notices
              /\ UrlSeq(new_notices) = UrlSeq(all_notices)

\* C11 witness: a run whose latest file was malformed has written and reported.
C11_Witness ==
    /\ io.load = "corrupt"
    /\ pc = "done"
    /\ io.write = "ok"
    /\ files[new_filename].notices = new_notices

\* The url line 36 gives a panel whose title link has no href or an empty
\* one.  Of the links of RawLinks only the empty one is normalised to it.
EmptyLinkUrl == NormaliseUrl(<< >>)

\* C12: a listing record whose link is missing or empty is excluded: it is
\* never among the new notices, never requested for enrichment, and never
\* in a written file.
C12_EmptyLinkExcluded ==
    /\ EmptyLinkUrl \notin UrlsOf(new_notices)
    /\ EmptyLinkUrl \notin Range(requests)
    /\ \A f \in GoodFiles(files) : EmptyLinkUrl \notin UrlsOf(files[f].notices)

\* C12, the written part alone: no file holds a notice of an empty link.
C12_EmptyLinkNeverWritten ==
    \A f \in GoodFiles(files) : EmptyLinkUrl \notin UrlsOf(files[f].notices)

\* The indexes of the listing records whose url is not in the baseline.
KeptIndexes(all, existing) ==
    { k \in 1..Len(all) : all[k].url \notin existing }

\* The index of the j-th kept listing record, counting from the top.
KeptIndex(all, existing, j) ==
    CHOOSE k \in KeptIndexes(all, existing) :
        Cardinality({ m \in KeptIndexes(all, existing) : m <= k }) = j

\* C13: the diff step gives exactly the listing records whose url is not in
\* the baseline, in the order of the listing, none whose url is in the
\* baseline, and leaves the listing, the baseline and the store as they were.
C13_DiffIsOrderedFilter ==
    [][ pc = "diff" =>
          /\ Len(new_notices') = Cardinality(KeptIndexes(all_notices, existing_links))
          /\ \A j \in 1..Len(new_notices') :
                new_notices'[j] = all_notices[KeptIndex(all_notices, existing_links, j)]
          /\ \A j \in 1..Len(new_notices') : new_notices'[j].url \notin existing_links
          /\ all_notices' = all_notices
          /\ existing_links' = existing_links
          /\ files' = files ]_vars

\* C13 witness: the diff step has dropped one of two listing records.
C13_Witness ==
    /\ pc = "enrich"
    /\ idx = 1
    /\ Len(all_notices) = 2
    /\ Len(new_notices) = 1
    /\ all_notices[1].url \in existing_links
    /\ new_notices[1].url = all_notices[2].url

\* C13 witness of the order: two different records, both kept.
C13_BothKept ==
    /\ pc = "enrich"
    /\ idx = 1
    /\ Len(new_notices) = 2
    /\ new_notices[1].url # new_notices[2].url

\* C14: in every record a run has written, total_notices is the length of
\* the notices list of that record.
C14_CountMatchesList ==
    \A f \in GoodFiles(files) : files[f].total_notices = Len(files[f].notices)

\* C14 witness: a run has written a record of two notices, one of them
\* taken over from the file before.
C14_Witness ==
    /\ pc = "done"
    /\ io.write = "ok"
    /\ new_filename \in GoodFiles(files)
    /\ new_filename \notin DOMAIN before
    /\ existing_links # {}
    /\ Len(files[new_filename].notices) = 2
    /\ files[new_filename].total_notices = 2

\* The last line a run prints when it ends by returning from main.
FinalMessages ==
    { "Added new notice(s). Saved.",
      "No notices found or error occurred.",
      "No new notices found. Everything is up to date." }

\* C15: whatever fails (listing fetch, secondary fetch, store read, store
\* write), a run ends in the final report or in an early return with its
\* message printed; no failure ends the run without a final message.
C15_EndsWithFinalMessage ==
    RunEnded =>
        /\ pc \in { "done", "aborted", "uptodate" }
        /\ output \in FinalMessages

\* C15, the failure that is not contained: a run ended by the exception of
\* the second read of the store, although the first read had succeeded.
C15_CrashOnReread ==
    /\ pc = "crashed"
    /\ io.load = "ok"
    /\ io.reread = "failed"
    /\ output = "Traceback"
    /\ files = before

\* The directory holds nothing but complete files of successful writes.
OnlySuccessfulWrites(dir) == DOMAIN dir # {} /\ GoodFiles(dir) = DOMAIN dir

\* C16: after any number of successful writes, the file a run takes as its
\* baseline (at the load, and again at the re-read of main) is the file of
\* the most recent successful write, the one with the highest number; also
\* when the numbers have two digits.
C16_LoadsMostRecentFile ==
    /\ run # "none" /\ OnlySuccessfulWrites(before) =>
          SortedLast(DOMAIN before) = LastGood(before)
    /\ pc \in { "enrich", "save" } /\ OnlySuccessfulWrites(files) =>
          SortedLast(DOMAIN files) = LastGood(files)

\* C16, what the run then works on: the baseline of a run that read its
\* file is the url set of the most recent successful write.
C16_BaselineIsMostRecent ==
    run # "none" /\ OnlySuccessfulWrites(before) /\ io.load = "ok" =>
        existing_links = UrlsOf(before[LastGood(before)].notices)

\* C17: get_next_filename never gives the name of a file of the directory,
\* whatever notices_*.json names the directory holds (numbered or not), so
\* a run never writes over a file: every file that was there when the run
\* began is still there, unchanged, at every later point of the run.
C17_NeverOverwrites ==
    /\ get_next_filename(DOMAIN files) \notin DOMAIN files
    /\ pc \in { "report", "done" } => new_filename \notin DOMAIN before
    /\ \A f \in DOMAIN before : f \in DOMAIN files /\ files[f] = before[f]

\* C17 witness: a run has written its file into a directory that held a
\* name int() rejects and a name whose number is not the highest.
C17_Witness ==
    /\ pc = "done"
    /\ io.write = "ok"
    /\ Cardinality(DOMAIN before) = 2
    /\ \E f \in DOMAIN before : ~IntParses(f)
    /\ \E f \in DOMAIN before : IntParses(f) /\ FileName(ParseInt(f)) # f
    /\ new_filename \in DOMAIN files
    /\ new_filename \notin DOMAIN before
    /\ files[new_filename] # CorruptFile

\* C17 witness of a number below zero: the directory held notices_-2.json
\* alone and the run wrote notices_-1.json.
C17_NegativeNumber ==
    /\ pc = "done"
    /\ io.write = "ok"
    /\ DOMAIN before = { FileName(0 - 2) }
    /\ new_filename = FileName(0 - 1)

\* The last Len(new) records of a list are the records of new.
EndsWith(notices, new) ==
    /\ Len(new) <= Len(notices)
    /\ \A k \in 1..Len(new) : notices[Len(notices) - Len(new) + k] = new[k]

\* C18: the summary "Added k new notice(s). Saved as F." is printed only
\* when F was written successfully and holds the k new notices; after a
\* failed write the run does not report the notices as saved.
C18_SavedOnlyIfWritten ==
    output = "Added new notice(s). Saved." =>
        /\ io.write = "ok"
        /\ new_filename \in GoodFiles(files)
        /\ EndsWith(files[new_filename].notices, new_notices)

\* C18, the successful case: whenever the write succeeded, the file named
\* in the summary holds the new notices.
C18_SavedWhenWritten ==
    output = "Added new notice(s). Saved." /\ io.write = "ok" =>
        /\ new_filename \in GoodFiles(files)
        /\ EndsWith(files[new_filename].notices, new_notices)

====
